---- MODULE Spec2Model ----
(***************************************************************************)
(* GpyX point-sequence core (src/models.py): GpsPoint, GpsPointArray and   *)
(* its simplification algorithms (remove_duplicates, decimate,             *)
(* douglas_peucker, simplify_for_routing).                                 *)
(*                                                                         *)
(* Representation.                                                         *)
(*  - A GpsPoint object is a record [ref, lat, lng].  ref = <<gen, slot>>  *)
(*    is the identity of the Python object: gen 0 for the points the       *)
(*    caller appended, gen k for the copies made by p.copy() in the k-th   *)
(*    trial of simplify_for_routing.  lat and lng are integers in tenths   *)
(*    of a degree.                                                         *)
(*  - Python lists are sequences; code index i is sequence position i+1    *)
(*    (operator At).                                                       *)
(*  - Doubles are fixed point.  cos(lat) is kept in halves (Cos2),         *)
(*    the clamped parameter t in thousandths, the result of                *)
(*    _perpendicular_distance in whole metres.  The tolerances lo, hi and  *)
(*    mid of the binary search are exact: a record [whole, frac] stands    *)
(*    for whole + frac / 2^30 (30 halvings of values below 2^16 are exact  *)
(*    in a double as well).  Cos2 cannot tell cos(0.1 deg) from 1, so the  *)
(*    input sets are ones on which the fixed-point distances order the     *)
(*    points of every range as the doubles do (Coords, TuneCoords).        *)
(*  - Next to the origin (SpecTiny) coordinates are multiples of 2^-538    *)
(*    degree instead, and products are rounded as subnormal doubles are.   *)
(*  - input, op, arg and counts are history: the list at the call, the     *)
(*    method called, its argument, and len(test) after each trial; ret is  *)
(*    what the call handed back.  route is the sequence that from_array    *)
(*    or convert builds.                                                   *)
(*  - keep and stack are the locals of the while loop of douglas_peucker, *)
(*    and pushed lists the ranges put on the stack (SpecLoop); current is  *)
(*    the local of the split loop of write_itn (SpecItn); written lists    *)
(*    the routes handed to a writer or written to a file; paths and        *)
(*    read_arrays are the arguments of convert, as supported or not, and   *)
(*    what read_file returned.                                             *)
(***************************************************************************)
EXTENDS Integers, Sequences, FiniteSets, TLC

VARIABLES points, input, op, arg, ret, route, pc, lo, hi, mid, best_pts, test, counts,
          keep, stack, pushed, current, written, paths, read_arrays

vars == <<points, input, op, arg, ret, route, pc, lo, hi, mid, best_pts, test, counts,
          keep, stack, pushed, current, written, paths, read_arrays>>

(* ------------------------------ bounds --------------------------------- *)

\* longest sequence of the general specification
MaxLen == 4

\* longest sequence handed to decimate
MaxDecLen == 12

\* longest sequence handed to simplify_for_routing
MaxTuneLen == 6

\* longest sequence of the specification of bounds, total_distance and
\* remove_empties
MaxNamedLen == 3

\* largest coordinate, in units of 2^-538 degree, of the specification of
\* _perpendicular_distance on points next to the origin
MaxTiny == 2

\* longest there-and-back run of a sequence of the long-search specification
MaxRunLen == 7

\* routes handed to write_itn have 0 .. MaxItnLen points
MaxItnLen == 6

\* the split loop of write_itn is followed for at most MaxParts files
MaxParts == 8

(* ------------------------------ inputs --------------------------------- *)

\* <<lat, lng>> in tenths of a degree: a staircase north-east from the origin
Coords == {<<0, 0>>, <<0, 1>>, <<1, 1>>, <<1, 2>>, <<2, 2>>, <<2, 3>>}

\* <<lat, lng>> in tenths of a degree, around 60 degrees north
TuneCoords == {<<600, 0>>, <<603, 1>>, <<605, 0>>}

\* <<lat, lng>> in tenths of a degree, on the meridian of Greenwich
MeridianCoords == {<<600, 0>>, <<601, 0>>, <<602, 0>>}

\* <<lat, lng>> in tenths of a degree, around the origin: the empty point,
\* points with one coordinate 0, and a point with neither
NamedCoords == {<<0, 0>>, <<0, 2>>, <<-1, 0>>, <<3, -2>>}

\* the fields of a GpsPoint besides lat and lng (comment goes with name)
Metas == {[alt |-> 0, name |-> ""], [alt |-> 7, name |-> "A"]}

\* <<lat, lng>> in units of 2^-538 degree
TinyCoords == (0 .. MaxTiny) \X (0 .. MaxTiny)

\* where the sequences handed to decimate start; they run east from there,
\* a tenth of a degree per point
DecStarts == {<<0, 0>>, <<1, 1>>}

\* epsilon_m of a direct douglas_peucker call, in metres
EpsSet == {-1, 0, 4000, 9000, 20000}

\* the colinear input (0,0), (0,1), (0,2), (0,3), (0,100), in tenths of a
\* degree, and the tolerance it is simplified with
ColinearExample == <<<<0, 0>>, <<0, 10>>, <<0, 20>>, <<0, 30>>, <<0, 1000>>>>

ExampleEps == {50}

\* keep_every_n
KeepSet == -1 .. 5

\* start and count of from_array
StartSet == {0, 1, 3}

CountSet == {-1, 0, 2}

\* target_points
TargetSet == {-3, 0, 2, 5}

\* max_points of write_itn
MaxPointsSet == -1 .. 4

(* ------------------------------ GpsPoint ------------------------------- *)

GpsPoint(slot, c) == [ref |-> <<0, slot>>, lat |-> c[1], lng |-> c[2]]

\* copy handing back the object itself
copyAlias(p, gen) == p

\* p.copy(): a new object with the same fields; gen names the allocation
copy(p, gen) == [p EXCEPT !.ref = <<gen, p.ref[2]>>]

\* the list built by appending GpsPoint(c[1]), GpsPoint(c[2]), ... in order
PointList(cs) == [i \in 1 .. Len(cs) |-> GpsPoint(i, cs[i])]

\* self._points[i], i a 0-based index
At(pts, i) == pts[i + 1]

key(p) == <<p.lat, p.lng>>

\* Filter collecting the kept points from the last index down
RECURSIVE FilterDescending(_, _, _)
FilterDescending(pts, flags, i) ==
    IF i >= Len(pts) THEN <<>>
    ELSE FilterDescending(pts, flags, i + 1) \o (IF flags[i] THEN <<At(pts, i)>> ELSE <<>>)

\* [p for i, p in enumerate(pts) if keep[i]], keep being flags
RECURSIVE Filter(_, _, _)
Filter(pts, flags, i) ==
    IF i >= Len(pts) THEN <<>>
    ELSE (IF flags[i] THEN <<At(pts, i)>> ELSE <<>>) \o Filter(pts, flags, i + 1)

(* ------------------------- fixed-point numbers ------------------------- *)

\* 2^30, the denominator of the fraction of a tolerance
FracDen == 2 ^ 30

Fixed(n) == [whole |-> n, frac |-> 0]

\* (a + b) / 2, exact
Half(a, b) ==
    LET w == a.whole + b.whole
        f == a.frac + b.frac
        g == (w % 2) * (FracDen \div 2) + f \div 2
    IN  IF g >= FracDen THEN [whole |-> w \div 2 + 1, frac |-> g - FracDen]
        ELSE [whole |-> w \div 2, frac |-> g]

\* LeqZero letting a tolerance of exactly 0 through
LeqZeroStrict(e) == e.whole < 0

\* e <= 0
LeqZero(e) == e.whole < 0 \/ (e.whole = 0 /\ e.frac = 0)

\* floor(sqrt(n)) for 0 <= n < 2^31
RECURSIVE SqrtSearch(_, _, _)
SqrtSearch(n, a, b) ==
    IF a = b THEN a
    ELSE LET m == (a + b + 1) \div 2
         IN  IF m * m <= n THEN SqrtSearch(n, m, b) ELSE SqrtSearch(n, a, m - 1)

ISqrt(n) == SqrtSearch(n, 0, 46340)

(* ---------------------- _perpendicular_distance ------------------------ *)

\* 2 * cos(lat), lat in tenths of a degree, rounded to a whole number
Cos2(lat) ==
    LET a == IF lat < 0 THEN -lat ELSE lat
    IN  IF a <= 414 THEN 2 ELSE IF a <= 755 THEN 1 ELSE 0

\* metres per degree of latitude
MetersPerDegree == 111320

\* Distance from pt to the segment line_start..line_end, in whole metres.
\* x and y are in twentieths of a degree (tenths, times the halves of Cos2);
\* t1000 is t in thousandths, ddx and ddy are in thousandths of that unit.
_perpendicular_distance(pt, line_start, line_end) ==
    LET cos_lat == Cos2(pt.lat)
        x0 == pt.lng * cos_lat
        y0 == pt.lat * 2
        x1 == line_start.lng * cos_lat
        y1 == line_start.lat * 2
        x2 == line_end.lng * cos_lat
        y2 == line_end.lat * 2
        dx == x2 - x1
        dy == y2 - y1
        num == (x0 - x1) * dx + (y0 - y1) * dy
        den == dx * dx + dy * dy
        t1000 == IF dx = 0 /\ dy = 0 THEN 0
                 ELSE LET q == (num * 1000) \div den
                      IN  IF q < 0 THEN 0 ELSE IF q > 1000 THEN 1000 ELSE q
        ddx == (x0 - x1) * 1000 - t1000 * dx
        ddy == (y0 - y1) * 1000 - t1000 * dy
    IN  ((MetersPerDegree \div 20) * ISqrt(ddx * ddx + ddy * ddy)) \div 1000

(* --------------------------- douglas_peucker --------------------------- *)

\* InitKeep without keep[n - 1] = True
InitKeepNoLast(n) == [i \in 0 .. n - 1 |-> i = 0]

\* keep = [False] * n; keep[0] = True; keep[n - 1] = True
InitKeep(n) == [i \in 0 .. n - 1 |-> i = 0 \/ i = n - 1]

\* the scan of one range: the loop over range(start + 1, end), from i on,
\* with the running max_dist and max_idx in m
RECURSIVE Scan(_, _, _, _, _)
Scan(pts, start, end, i, m) ==
    IF i >= end THEN m
    ELSE LET d == _perpendicular_distance(At(pts, i), At(pts, start), At(pts, end))
         IN  Scan(pts, start, end, i + 1,
                  IF d > m.max_dist THEN [max_dist |-> d, max_idx |-> i] ELSE m)

\* Scan taking a later point that is as far as the farthest so far
RECURSIVE ScanLastMax(_, _, _, _, _)
ScanLastMax(pts, start, end, i, m) ==
    IF i >= end THEN m
    ELSE LET d == _perpendicular_distance(At(pts, i), At(pts, start), At(pts, end))
         IN  ScanLastMax(pts, start, end, i + 1,
                         IF d >= m.max_dist /\ d > 0 THEN [max_dist |-> d, max_idx |-> i] ELSE m)

\* MaxOfRange with the highest index among the farthest points
MaxOfRangeLastMax(pts, start, end) ==
    ScanLastMax(pts, start, end, start + 1, [max_dist |-> 0, max_idx |-> start])

\* MaxOfRange scanning range(start + 2, end)
MaxOfRangeSkipFirst(pts, start, end) ==
    Scan(pts, start, end, start + 2, [max_dist |-> 0, max_idx |-> start])

\* max_dist = 0.0; max_idx = start; for i in range(start + 1, end): ...
MaxOfRange(pts, start, end) ==
    Scan(pts, start, end, start + 1, [max_dist |-> 0, max_idx |-> start])

\* Exceeds without the tolerance: splits a range at any farthest point
ExceedsAnyDistance(max_dist, epsilon_m) == max_dist >= 0

\* Exceeds with the comparison turned round: splits at a point within the tolerance
ExceedsInverted(max_dist, epsilon_m) == max_dist > 0 /\ max_dist <= epsilon_m.whole

\* max_dist > epsilon_m, max_dist in whole metres
Exceeds(max_dist, epsilon_m) == max_dist > epsilon_m.whole

\* one pass of the while loop: pop a range, scan it, split it
DPStep(pts, epsilon_m, st) ==
    LET top   == st.stack[Len(st.stack)]
        rest  == SubSeq(st.stack, 1, Len(st.stack) - 1)
        start == top[1]
        end   == top[2]
        m     == MaxOfRange(pts, start, end)
    IN  IF end - start < 2 THEN [keep |-> st.keep, stack |-> rest]
        ELSE IF Exceeds(m.max_dist, epsilon_m)
             THEN [keep  |-> [st.keep EXCEPT ![m.max_idx] = TRUE],
                   stack |-> rest \o <<<<start, m.max_idx>>, <<m.max_idx, end>>>>]
             ELSE [keep |-> st.keep, stack |-> rest]

\* while stack: ...
RECURSIVE DPLoop(_, _, _)
DPLoop(pts, epsilon_m, st) ==
    IF st.stack = <<>> THEN st.keep ELSE DPLoop(pts, epsilon_m, DPStep(pts, epsilon_m, st))

\* the keep flags douglas_peucker computes for a list of n >= 3 points
KeepFlags(pts, epsilon_m) ==
    LET n == Len(pts)
    IN  DPLoop(pts, epsilon_m, [keep |-> InitKeep(n), stack |-> <<<<0, n - 1>>>>])

\* self._points after douglas_peucker(epsilon_m)
douglas_peucker(pts, epsilon_m) ==
    IF Len(pts) < 3 \/ LeqZero(epsilon_m) THEN pts
    ELSE Filter(pts, KeepFlags(pts, epsilon_m), 0)

(* -------------------------- remove_duplicates -------------------------- *)

\* Unique keeping the last occurrence of a key instead of the first
RECURSIVE UniqueKeepLast(_, _, _)
UniqueKeepLast(pts, i, seen) ==
    IF i >= Len(pts) THEN <<>>
    ELSE LET p == At(pts, i)
         IN  IF \E j \in i + 1 .. Len(pts) - 1 : key(At(pts, j)) = key(p)
             THEN UniqueKeepLast(pts, i + 1, seen)
             ELSE <<p>> \o UniqueKeepLast(pts, i + 1, seen)

\* the loop over self._points from 0-based index i on, with the set seen
RECURSIVE Unique(_, _, _)
Unique(pts, i, seen) ==
    IF i >= Len(pts) THEN <<>>
    ELSE LET p == At(pts, i)
         IN  IF key(p) \notin seen
             THEN <<p>> \o Unique(pts, i + 1, seen \cup {key(p)})
             ELSE Unique(pts, i + 1, seen)

remove_duplicates(pts) == Unique(pts, 0, {})

(* ------------------------------ decimate ------------------------------- *)

\* Selected counting the points from 1
SelectedOneBased(i, keep_every_n) == (i + 1) % keep_every_n = 0

\* i % keep_every_n == 0
Selected(i, keep_every_n) == i % keep_every_n = 0

\* the loop over range(1, len - 1), from i on
RECURSIVE Interior(_, _, _)
Interior(pts, keep_every_n, i) ==
    IF i >= Len(pts) - 1 THEN <<>>
    ELSE (IF Selected(i, keep_every_n) THEN <<At(pts, i)>> ELSE <<>>)
             \o Interior(pts, keep_every_n, i + 1)

\* decimate without result.append(self._points[-1])
decimateNoLast(pts, keep_every_n) ==
    IF keep_every_n < 2 \/ Len(pts) < 3 THEN pts
    ELSE <<At(pts, 0)>> \o Interior(pts, keep_every_n, 1)

\* decimate guarded on the length only, selecting no interior point when
\* keep_every_n < 1
decimateLengthGuard(pts, keep_every_n) ==
    IF Len(pts) < 3 THEN pts
    ELSE IF keep_every_n < 1 THEN <<At(pts, 0), At(pts, Len(pts) - 1)>>
    ELSE <<At(pts, 0)>> \o Interior(pts, keep_every_n, 1) \o <<At(pts, Len(pts) - 1)>>

\* self._points after decimate(keep_every_n)
decimate(pts, keep_every_n) ==
    IF keep_every_n < 2 \/ Len(pts) < 3 THEN pts
    ELSE <<At(pts, 0)>> \o Interior(pts, keep_every_n, 1) \o <<At(pts, Len(pts) - 1)>>

(* ------------------------------- state --------------------------------- *)

NoTuner ==
    /\ lo = Fixed(0)
    /\ hi = Fixed(0)
    /\ mid = Fixed(0)
    /\ best_pts = <<>>
    /\ test = <<>>
    /\ counts = <<>>

\* no loop of douglas_peucker or write_itn under way, nothing read or written
NoLoop ==
    /\ keep = <<>>
    /\ stack = <<>>
    /\ pushed = <<>>
    /\ current = 0
    /\ written = <<>>
    /\ paths = <<>>
    /\ read_arrays = <<>>

\* what a call handed back: the value returned, as a tuple (empty for None),
\* or the name of the exception raised
Return(v) == [raised |-> "", value |-> v]

Raise(e) == [raised |-> e, value |-> <<>>]

InitWith(cs) ==
    /\ points = PointList(cs)
    /\ input = points
    /\ op = "none"
    /\ arg = 0
    /\ ret = Return(<<>>)
    /\ route = <<>>
    /\ pc = "idle"
    /\ NoTuner
    /\ NoLoop

Seqs(S, n) == UNION {[1 .. k -> S] : k \in 0 .. n}

Init == \E cs \in Seqs(Coords, MaxLen) : InitWith(cs)

TunerUnchanged == UNCHANGED <<lo, hi, mid, best_pts, test, counts>>

LoopUnchanged == UNCHANGED <<keep, stack, pushed, current, written, paths, read_arrays>>

\* a call of a method that runs to completion in one step
Call(name, a, result) ==
    /\ pc = "idle"
    /\ input' = points
    /\ op' = name
    /\ arg' = a
    /\ points' = result
    /\ ret' = Return(<<>>)
    /\ pc' = "done"
    /\ UNCHANGED route
    /\ TunerUnchanged
    /\ LoopUnchanged

DouglasPeucker == \E e \in EpsSet : Call("douglas_peucker", e, douglas_peucker(points, Fixed(e)))

RemoveDuplicates == Call("remove_duplicates", 0, remove_duplicates(points))

Next == DouglasPeucker \/ RemoveDuplicates

Spec == Init /\ [][Next]_vars

(* douglas_peucker again, with the colinear example among the inputs *)

InitColinear == Init \/ InitWith(ColinearExample)

DouglasPeuckerColinear ==
    \E e \in EpsSet \cup ExampleEps : Call("douglas_peucker", e, douglas_peucker(points, Fixed(e)))

NextColinear == DouglasPeuckerColinear

SpecColinear == InitColinear /\ [][NextColinear]_vars

(* douglas_peucker one pass of its while loop at a time: keep and stack are *)
(* its locals, pushed lists every range ever put on the stack.             *)

\* n < 3 or epsilon_m <= 0: return
DPReturn ==
    \E e \in EpsSet :
        /\ Len(points) < 3 \/ LeqZero(Fixed(e))
        /\ Call("douglas_peucker", e, points)

\* the call otherwise, up to the head of the while loop
DPBegin ==
    \E e \in EpsSet :
        /\ pc = "idle"
        /\ ~(Len(points) < 3 \/ LeqZero(Fixed(e)))
        /\ input' = points
        /\ op' = "douglas_peucker"
        /\ arg' = e
        /\ keep' = InitKeep(Len(points))
        /\ stack' = <<<<0, Len(points) - 1>>>>
        /\ pushed' = <<<<0, Len(points) - 1>>>>
        /\ pc' = "while"
        /\ UNCHANGED <<points, ret, route, current, written, paths, read_arrays>>
        /\ TunerUnchanged

\* one pass: stack.pop(), the scan, and the two stack.append on a split
DPIterate ==
    /\ pc = "while"
    /\ stack # <<>>
    /\ \E st \in {DPStep(points, Fixed(arg), [keep |-> keep, stack |-> stack])} :
          /\ keep' = st.keep
          /\ stack' = st.stack
          /\ pushed' = pushed \o SubSeq(st.stack, Len(stack), Len(st.stack))
    /\ UNCHANGED <<points, input, op, arg, ret, route, pc, current, written, paths, read_arrays>>
    /\ TunerUnchanged

\* the stack is empty: self._points = [p for i, p in enumerate(...) if keep[i]]
DPFinish ==
    /\ pc = "while"
    /\ stack = <<>>
    /\ points' = Filter(points, keep, 0)
    /\ pc' = "done"
    /\ UNCHANGED <<input, op, arg, ret, route, keep, stack, pushed, current, written, paths, read_arrays>>
    /\ TunerUnchanged

\* a GpsPointArray as its constructor leaves it: self._points = []
InitNew == InitWith(<<>>)

\* self._points.append(point), point a new GpsPoint
AppendPoint ==
    \E c \in Coords :
        /\ pc = "idle"
        /\ Len(points) < MaxLen
        /\ points' = Append(points, GpsPoint(Len(points) + 1, c))
        /\ input' = points'
        /\ UNCHANGED <<op, arg, ret, route, pc>>
        /\ TunerUnchanged
        /\ LoopUnchanged

NextLoop == AppendPoint \/ DPReturn \/ DPBegin \/ DPIterate \/ DPFinish

\* A call that has begun runs on.  DPIterate is enabled exactly when the
\* loop is at its head with a range on the stack, so weak fairness of
\* DPIterate is written with that state predicate in the place of ENABLED.
LoopRuns == (<>[](pc = "while" /\ stack # <<>>)) => []<><<DPIterate>>_vars

SpecLoop == InitNew /\ [][NextLoop]_vars /\ LoopRuns /\ WF_vars(DPFinish)

(* decimate, on sequences long enough for its modulo rule to show *)

Track(n, c) == [i \in 1 .. n |-> <<c[1], c[2] + i - 1>>]

InitDecimate == \E n \in 0 .. MaxDecLen, c \in DecStarts : InitWith(Track(n, c))

Decimate == \E n \in KeepSet : Call("decimate", n, decimate(points, n))

NextDecimate == Decimate

SpecDecimate == InitDecimate /\ [][NextDecimate]_vars

(* ------------ _perpendicular_distance next to the origin --------------- *)

(* Coordinates here are whole multiples of 2^-538 degree, each of them a     *)
(* double.  Sums and differences of such values are exact.  The product of   *)
(* two of them is a multiple of 2^-1076, below the smallest normal double,   *)
(* and is rounded to the nearest multiple of 2^-1074 (the spacing of the     *)
(* subnormal doubles), ties to even: the product of two non-zero values can  *)
(* be 0.0.                                                                   *)

\* a * b in units of 2^-1074, for a and b in units of 2^-538
TinyMul(a, b) ==
    LET p == a * b
        f == p \div 4
        r == p % 4
    IN  IF r < 2 THEN f
        ELSE IF r > 2 THEN f + 1
        ELSE IF f % 2 = 0 THEN f ELSE f + 1

\* _perpendicular_distance for such points.  cos(radians(pt.lat)) is 1.0.
\* The value returned is <<ddx * den, ddy * den, den>>, ddx and ddy in units
\* of 2^-538 degree (den is 1 in the first branch): the method returns
\* 111320 * sqrt(ddx^2 + ddy^2).  A division by 0.0 raises ZeroDivisionError.
_perpendicular_distance_tiny(pt, line_start, line_end) ==
    LET x0 == pt.lng
        y0 == pt.lat
        x1 == line_start.lng
        y1 == line_start.lat
        x2 == line_end.lng
        y2 == line_end.lat
        dx == x2 - x1
        dy == y2 - y1
        num == TinyMul(x0 - x1, dx) + TinyMul(y0 - y1, dy)
        den == TinyMul(dx, dx) + TinyMul(dy, dy)
        tn == IF num < 0 THEN 0 ELSE IF num > den THEN den ELSE num
    IN  IF dx = 0 /\ dy = 0 THEN Return(<<x0 - x1, y0 - y1, 1>>)
        ELSE IF den = 0 THEN Raise("ZeroDivisionError")
        ELSE Return(<<(x0 - x1) * den - tn * dx, (y0 - y1) * den - tn * dy, den>>)

(* --------------- bounds, total_distance, remove_empties ---------------- *)

\* __bool__ demanding both coordinates to be non-zero
__bool__Both(p) == p.lat # 0 /\ p.lng # 0

\* return self.lat != 0.0 or self.lng != 0.0
__bool__(p) == p.lat # 0 \/ p.lng # 0

\* [p for p in self._points if p]
remove_empties(pts) == SelectSeq(pts, __bool__)

min(S) == CHOOSE x \in S : \A y \in S : x <= y

max(S) == CHOOSE x \in S : \A y \in S : x >= y

\* bounds(): min() and max() of an empty list raise ValueError
bounds(pts) ==
    LET lats == {pts[i].lat : i \in {j \in 1 .. Len(pts) : __bool__(pts[j])}}
        lngs == {pts[i].lng : i \in {j \in 1 .. Len(pts) : __bool__(pts[j])}}
    IN  IF pts = <<>> THEN Return(<<0, 0, 0, 0>>)
        ELSE IF lats = {} THEN Raise("ValueError")
        ELSE Return(<<min(lats), min(lngs), max(lats), max(lngs)>>)

\* R = 6371000
EarthRadius == 6371000

\* Haversine distance in whole metres, for points a few degrees apart, where
\* 2 * atan2(sqrt(a), sqrt(1 - a)) is sqrt(dlat^2 + cos(lat1) * cos(lat2) *
\* dlng^2) in radians; a tenth of a degree is pi / 1800, pi taken as 355 / 113
distance_from(self, other) ==
    LET dlat == other.lat - self.lat
        dlng == other.lng - self.lng
        cc   == Cos2(self.lat) * Cos2(other.lat)
        tenth == ((EarthRadius \div 1800) * 355) \div 113
    IN  (tenth * ISqrt(10000 * (4 * dlat * dlat + cc * dlng * dlng))) \div 200

\* the loop over range(i, len(self._points)) with the running total
RECURSIVE Legs(_, _, _)
Legs(pts, i, total) ==
    IF i >= Len(pts) THEN total
    ELSE Legs(pts, i + 1, total + distance_from(At(pts, i - 1), At(pts, i)))

\* total_distance starting its loop at 2
total_distanceSkipFirst(pts) == Legs(pts, 2, 0)

\* total = 0.0; for i in range(1, len(self._points)): ...; return total
total_distance(pts) == Legs(pts, 1, 0)

NamedPoint(slot, c, m) ==
    [ref |-> <<0, slot>>, lat |-> c[1], lng |-> c[2], alt |-> m.alt, name |-> m.name]

InitNamed ==
    \E cs \in Seqs(NamedCoords \X Metas, MaxNamedLen) :
        /\ points = [i \in 1 .. Len(cs) |-> NamedPoint(i, cs[i][1], cs[i][2])]
        /\ input = points
        /\ op = "none"
        /\ arg = 0
        /\ ret = Return(<<>>)
        /\ route = <<>>
        /\ pc = "idle"
        /\ NoTuner
        /\ NoLoop

\* a call of a method that leaves the list alone and hands back r
Query(name, r) ==
    /\ pc = "idle"
    /\ input' = points
    /\ op' = name
    /\ ret' = r
    /\ pc' = "done"
    /\ UNCHANGED <<points, arg, route>>
    /\ TunerUnchanged
    /\ LoopUnchanged

Bounds == Query("bounds", bounds(points))

TotalDistance == Query("total_distance", Return(<<total_distance(points)>>))

RemoveEmpties == Call("remove_empties", 0, remove_empties(points))

\* pt, line_start and line_end, in this order, next to the origin
InitTiny == \E cs \in [1 .. 3 -> TinyCoords] : InitWith(cs)

PerpendicularDistance ==
    Query("_perpendicular_distance", _perpendicular_distance_tiny(points[1], points[2], points[3]))

NextTiny == PerpendicularDistance

SpecTiny == InitTiny /\ [][NextTiny]_vars

NextNamed == Bounds \/ TotalDistance \/ RemoveEmpties

SpecNamed == InitNamed /\ [][NextNamed]_vars

(* ------------------------- simplify_for_routing ------------------------ *)

\* lo, hi = 1.0, 50000.0
EpsLo == 1

EpsHi == 50000

\* for _ in range(30)
SearchIterations == 30

Abs(n) == IF n < 0 THEN -n ELSE n

Max(a, b) == IF a > b THEN a ELSE b

\* NoOp with < for <=
NoOpStrict(n, target_points) == n < target_points

\* len(self._points) <= target_points
NoOp(n, target_points) == n <= target_points

\* EarlyExit with a tolerance of max(3, ...)
EarlyExitWide(count, target_points) ==
    20 * Abs(count - target_points) <= Max(60, target_points)

\* abs(count - target_points) <= max(2, target_points * 0.05), times 20
EarlyExit(count, target_points) ==
    20 * Abs(count - target_points) <= Max(40, target_points)

\* TrialInput handing the trial the caller's own points
TrialInputAlias(pts, gen) == pts

\* test._points = [p.copy() for p in self._points]
TrialInput(pts, gen) == [i \in 1 .. Len(pts) |-> copy(pts[i], gen)]

\* LoopExhausted one iteration late
LoopExhaustedLate(n) == n >= SearchIterations + 1

\* range(30) has no further value after n iterations
LoopExhausted(n) == n >= SearchIterations

\* TooMany with the comparison turned round
TooManyInverted(count, target_points) == count < target_points

\* TooMany taking the upper half at count = target_points as well
TooManyOrEqual(count, target_points) == count >= target_points

\* if count > target_points
TooMany(count, target_points) == count > target_points

\* the break leaving the recorded best in place
BreakResultKeepsBest(best, tst) == best

\* best_pts = test._points, the statement before the break
BreakResult(best, tst) == tst

InitTune == \E cs \in Seqs(TuneCoords, MaxTuneLen) : InitWith(cs)

\* the call with len(self._points) <= target_points: return
SimplifyReturn ==
    \E target_points \in TargetSet :
        /\ pc = "idle"
        /\ NoOp(Len(points), target_points)
        /\ input' = points
        /\ op' = "simplify_for_routing"
        /\ arg' = target_points
        /\ pc' = "done"
        /\ UNCHANGED <<points, ret, route>>
        /\ TunerUnchanged
        /\ LoopUnchanged

\* the call otherwise, up to the head of the loop
SimplifyBegin ==
    \E target_points \in TargetSet :
        /\ pc = "idle"
        /\ ~NoOp(Len(points), target_points)
        /\ input' = points
        /\ op' = "simplify_for_routing"
        /\ arg' = target_points
        /\ lo' = Fixed(EpsLo)
        /\ hi' = Fixed(EpsHi)
        /\ best_pts' = points
        /\ pc' = "loop"
        /\ UNCHANGED <<points, ret, route, mid, test, counts>>
        /\ LoopUnchanged

\* one iteration, up to the call of test.douglas_peucker(mid)
TrialCopy ==
    /\ pc = "loop"
    /\ ~LoopExhausted(Len(counts))
    /\ mid' = Half(lo, hi)
    /\ test' = TrialInput(points, Len(counts) + 1)
    /\ pc' = "trial"
    /\ UNCHANGED <<points, input, op, arg, ret, route, lo, hi, best_pts, counts>>
    /\ LoopUnchanged

\* the rest of the iteration: the trial, the step of the search, and the test
\* of the tolerance that decides whether the loop goes on
TrialRun ==
    /\ pc = "trial"
    /\ \E out \in {douglas_peucker(test, mid)} :
          LET count == Len(out)
              brk   == EarlyExit(count, arg)
          IN  /\ test' = out
              /\ counts' = Append(counts, count)
              /\ lo' = IF TooMany(count, arg) THEN mid ELSE lo
              /\ hi' = IF TooMany(count, arg) THEN hi ELSE mid
              /\ best_pts' = IF TooMany(count, arg) THEN best_pts ELSE out
              /\ pc' = IF brk THEN "break" ELSE "loop"
    /\ UNCHANGED <<points, input, op, arg, ret, route, mid>>
    /\ LoopUnchanged

\* best_pts = test._points; break; self._points = best_pts
AssignAfterBreak ==
    /\ pc = "break"
    /\ best_pts' = BreakResult(best_pts, test)
    /\ points' = BreakResult(best_pts, test)
    /\ pc' = "done"
    /\ UNCHANGED <<input, op, arg, ret, route, lo, hi, mid, test, counts>>
    /\ LoopUnchanged

\* self._points = best_pts, after the last iteration
AssignAfterLoop ==
    /\ pc = "loop"
    /\ LoopExhausted(Len(counts))
    /\ points' = best_pts
    /\ pc' = "done"
    /\ UNCHANGED <<input, op, arg, ret, route, lo, hi, mid, best_pts, test, counts>>
    /\ LoopUnchanged

NextTune ==
    \/ SimplifyReturn
    \/ SimplifyBegin
    \/ TrialCopy
    \/ TrialRun
    \/ AssignAfterBreak
    \/ AssignAfterLoop

SpecTune == InitTune /\ [][NextTune]_vars

\* a, b, a, b, ... for n points, then c: a track that goes there and back
\* along a meridian and ends at c
ThereAndBack(a, b, n, c) == [i \in 1 .. n + 1 |-> IF i = n + 1 THEN c ELSE IF i % 2 = 1 THEN a ELSE b]

\* the tuner handed tracks long enough for the search to move both ways
InitLong ==
    \E a, b, c \in MeridianCoords :
        \E n \in 1 .. MaxRunLen :
            InitWith(ThereAndBack(a, b, n, c))

SpecLong == InitLong /\ [][NextTune]_vars

(* ------------------- _handle_simplify (src/server.py) ------------------ *)

(* The request is the environment's choice: the points of the body are the  *)
(* list the specification starts with (the route the handler builds from    *)
(* them), and method and its parameter are chosen where the handler         *)
(* dispatches: op is the method called, arg the parameter read from the     *)
(* body.                                                                    *)

\* the list of dicts sent back for the route's points
JsonPoints(pts) == [i \in 1 .. Len(pts) |-> [lat |-> pts[i].lat, lng |-> pts[i].lng]]

\* self._send_json({"original": ..., "simplified": ..., "points": [...]})
SendJson ==
    /\ pc = "done"
    /\ ret' = Return(<<[original   |-> Len(input),
                        simplified |-> Len(points),
                        points     |-> JsonPoints(points)]>>)
    /\ pc' = "sent"
    /\ UNCHANGED <<points, input, op, arg, route>>
    /\ TunerUnchanged
    /\ LoopUnchanged

NextApi ==
    \/ DouglasPeucker
    \/ Decimate
    \/ RemoveDuplicates
    \/ SimplifyReturn
    \/ SimplifyBegin
    \/ TrialCopy
    \/ TrialRun
    \/ AssignAfterBreak
    \/ AssignAfterLoop
    \/ SendJson

SpecApi == InitLong /\ [][NextApi]_vars

(* ------------------- from_array, convert, GpsPoint.clear --------------- *)

\* route = cls(array.name); for i in range(start, end): route.append(array[i].copy())
from_array(array, start, count) ==
    LET end == IF count < 0 THEN Len(array) ELSE
               IF start + count < Len(array) THEN start + count ELSE Len(array)
    IN  [j \in 1 .. Max(0, end - start) |-> copy(At(array, start + j - 1), 1)]

\* the lists of arrays read_file may hand to convert for a file holding pts:
\* one array, or two that split pts, or none at all for a file without data
Splits(pts) ==
    {<<pts>>}
        \cup {<<SubSeq(pts, 1, k), SubSeq(pts, k + 1, Len(pts))>> : k \in 0 .. Len(pts)}
        \cup (IF pts = <<>> THEN {<<>>} ELSE {})

\* for arr in arrays: for pt in arr: merged.append(pt.copy()), from array i on
RECURSIVE Merge(_, _)
Merge(arrays, i) ==
    IF i > Len(arrays) THEN <<>>
    ELSE [j \in 1 .. Len(arrays[i]) |-> copy(arrays[i][j], 1)] \o Merge(arrays, i + 1)

FromArray ==
    \E start \in StartSet, count \in CountSet :
        /\ pc = "idle"
        /\ input' = points
        /\ op' = "from_array"
        /\ arg' = start
        /\ route' = from_array(points, start, count)
        /\ ret' = Return(<<>>)
        /\ pc' = "done"
        /\ UNCHANGED points
        /\ TunerUnchanged
        /\ LoopUnchanged

\* the names of the arrays a reader hands back, in reader order
ArrayNames == <<"first", "second">>

\* what read_file returns for the lists of points in arrays
ReadArrays(arrays) == [i \in 1 .. Len(arrays) |-> [name |-> ArrayNames[i], points |-> arrays[i]]]

\* merged_name taking the name of the last array
merged_nameLast(arrays) == arrays[Len(arrays)].name

\* merged = GpsRoute(arrays[0].name)
merged_name(arrays) == arrays[1].name

\* convert(input_path, output_path).  reader: _READERS has the extension of
\* input_path; writer: _WRITERS has that of output_path.  read_file raises
\* ValueError without a reader, convert does for a file without an array,
\* write_file does without a writer, after the merge and before any writer
\* is called.  written lists the routes handed to a writer.
Convert ==
    \E reader \in BOOLEAN, arrays \in Splits(points), writer \in BOOLEAN :
        /\ pc = "idle"
        /\ input' = points
        /\ op' = "convert"
        /\ paths' = [input |-> reader, output |-> writer]
        /\ read_arrays' = IF reader THEN ReadArrays(arrays) ELSE <<>>
        /\ arg' = IF reader THEN Len(arrays) ELSE 0
        /\ \E merged \in {IF reader /\ arrays # <<>> THEN Merge(arrays, 1) ELSE <<>>} :
              IF ~reader \/ arrays = <<>>
              THEN /\ ret' = Raise("ValueError")
                   /\ UNCHANGED <<route, written>>
              ELSE /\ route' = merged
                   /\ IF writer
                      THEN /\ written' = Append(written, [name   |-> merged_name(ReadArrays(arrays)),
                                                          points |-> merged])
                           /\ ret' = Return(<<[name |-> merged_name(ReadArrays(arrays)), points |-> merged]>>)
                      ELSE /\ ret' = Raise("ValueError")
                           /\ UNCHANGED written
        /\ pc' = "done"
        /\ UNCHANGED <<points, keep, stack, pushed, current>>
        /\ TunerUnchanged

\* p.clear() on the object p: every list that holds p sees lat = lng = 0
Cleared(s, p) ==
    [j \in 1 .. Len(s) |-> IF s[j].ref = p.ref THEN [s[j] EXCEPT !.lat = 0, !.lng = 0] ELSE s[j]]

\* route[i].clear() on the sequence from_array or convert built
Clear ==
    \E i \in 1 .. Len(route) :
        /\ pc = "done"
        /\ route' = Cleared(route, route[i])
        /\ points' = Cleared(points, route[i])
        /\ pc' = "cleared"
        /\ UNCHANGED <<input, op, arg, ret>>
        /\ TunerUnchanged
        /\ LoopUnchanged

NextCopy ==
    \/ FromArray
    \/ Convert
    \/ Clear
    \/ SimplifyReturn
    \/ SimplifyBegin
    \/ TrialCopy
    \/ TrialRun
    \/ AssignAfterBreak
    \/ AssignAfterLoop

SpecCopy == InitLong /\ [][NextCopy]_vars

(* ---------------------- write_itn (src/formats.py) --------------------- *)

(* points is the route handed to write_itn, arg its max_points; written     *)
(* lists the files _write_one wrote: the part number (0 for the one file of *)
(* an unsplit route) and the points of the route written to it.  current is *)
(* the local of the split loop; part is Len(written).                       *)

InitItn == \E n \in 0 .. MaxItnLen, c \in DecStarts : InitWith(Track(n, c))

\* start = max(0, current - (1 if current > 0 else 0))
part_start(cur) == max({0, cur - (IF cur > 0 THEN 1 ELSE 0)})

\* count = min(max_points, len(route) - start)
part_count(max_points, n, start) == min({max_points, n - start})

\* max_points <= 0 or len(route) <= max_points: _write_one(filepath, route)
WriteWhole ==
    \E max_points \in MaxPointsSet :
        /\ pc = "idle"
        /\ max_points <= 0 \/ Len(points) <= max_points
        /\ input' = points
        /\ op' = "write_itn"
        /\ arg' = max_points
        /\ written' = Append(written, [name |-> 0, points |-> points])
        /\ pc' = "done"
        /\ UNCHANGED <<points, ret, route, keep, stack, pushed, current, paths, read_arrays>>
        /\ TunerUnchanged

\* the call otherwise, up to the head of the while loop: current = 0; part = 0
SplitBegin ==
    \E max_points \in MaxPointsSet :
        /\ pc = "idle"
        /\ ~(max_points <= 0 \/ Len(points) <= max_points)
        /\ input' = points
        /\ op' = "write_itn"
        /\ arg' = max_points
        /\ current' = 0
        /\ pc' = "split"
        /\ UNCHANGED <<points, ret, route, keep, stack, pushed, written, paths, read_arrays>>
        /\ TunerUnchanged

\* one pass of while current < len(route)
SplitPart ==
    /\ pc = "split"
    /\ current < Len(points)
    /\ Len(written) < MaxParts
    /\ \E start \in {part_start(current)} :
          \E count \in {part_count(arg, Len(points), start)} :
             /\ written' = Append(written, [name   |-> Len(written) + 1,
                                            points |-> from_array(points, start, count)])
             /\ current' = start + count
    /\ UNCHANGED <<points, input, op, arg, ret, route, pc, keep, stack, pushed, paths, read_arrays>>
    /\ TunerUnchanged

\* current >= len(route): the loop is over and write_itn returns
SplitEnd ==
    /\ pc = "split"
    /\ current >= Len(points)
    /\ pc' = "done"
    /\ UNCHANGED <<points, input, op, arg, ret, route, keep, stack, pushed, current, written,
                   paths, read_arrays>>
    /\ TunerUnchanged

NextItn == WriteWhole \/ SplitBegin \/ SplitPart \/ SplitEnd

\* a call that has begun runs on
SpecItn == InitItn /\ [][NextItn]_vars /\ WF_vars(SplitPart) /\ WF_vars(SplitEnd)

(* ------------------------------ claims --------------------------------- *)

Done(name) == pc = "done" /\ op = name

First(s) == s[1]

Last(s) == s[Len(s)]

Refs(s) == {s[i].ref : i \in 1 .. Len(s)}

SameCoord(p, q) == p.lat = q.lat /\ p.lng = q.lng

\* the 0-based index a point had in the list the caller built
Idx(p) == p.ref[2] - 1

\* s holds points of the list `from`, in increasing index order
SubList(s, from) ==
    /\ \A j \in 1 .. Len(s) : Idx(s[j]) \in 0 .. Len(from) - 1 /\ s[j] = At(from, Idx(s[j]))
    /\ \A j \in 1 .. Len(s) - 1 : Idx(s[j]) < Idx(s[j + 1])

\* C1: after douglas_peucker(epsilon_m) on a sequence of length >= 2, whatever
\* epsilon_m, the first point of the output is the input's point at index 0
\* and the last point of the output is the input's point at the last index.
C1_DPEndpoints ==
    (Done("douglas_peucker") /\ Len(input) >= 2)
        => /\ Len(points) >= 2
           /\ First(points) = First(input)
           /\ Last(points) = Last(input)

\* douglas_peucker ran its loop and removed a point
C1_Witness ==
    /\ Done("douglas_peucker")
    /\ arg > 0
    /\ Len(input) >= 3
    /\ Len(points) < Len(input)

\* C3: for a fixed input and tolerances e1 <= e2, douglas_peucker(e2) outputs
\* no more points than douglas_peucker(e1), and every point it keeps is kept
\* by douglas_peucker(e1) as well.
C3_DPMonotone ==
    Done("douglas_peucker")
        => \A e2 \in EpsSet :
              e2 >= arg
                  => LET out2 == douglas_peucker(input, Fixed(e2))
                     IN  /\ Len(out2) <= Len(points)
                         /\ Refs(out2) \subseteq Refs(points)

\* a larger tolerance removes strictly more of an input that e1 already thinned
C3_Witness ==
    /\ Done("douglas_peucker")
    /\ arg > 0
    /\ Len(points) < Len(input)
    /\ \E e2 \in EpsSet : e2 > arg /\ Len(douglas_peucker(input, Fixed(e2))) < Len(points)

\* C4: douglas_peucker(e) applied to the output of douglas_peucker(e) leaves
\* it unchanged: the same points in the same order.
C4_DPIdempotent ==
    Done("douglas_peucker") => douglas_peucker(points, Fixed(arg)) = points

\* the first pass removed a point and left enough for the second to scan
C4_Witness ==
    /\ Done("douglas_peucker")
    /\ arg > 0
    /\ Len(points) < Len(input)
    /\ Len(points) >= 3

\* C5: after remove_duplicates() no two points of the output have the same
\* (lat, lng); every (lat, lng) of the input appears exactly once; the point
\* kept for a pair is its first occurrence in the input; the kept points are
\* in their input order.
C5_DedupCorrect ==
    Done("remove_duplicates")
        => /\ \A i, j \in 1 .. Len(points) : SameCoord(points[i], points[j]) => i = j
           /\ \A k \in 1 .. Len(input) :
                 Cardinality({j \in 1 .. Len(points) : SameCoord(points[j], input[k])}) = 1
           /\ SubList(points, input)
           /\ \A j \in 1 .. Len(points) :
                 \A k \in 1 .. Len(input) :
                    SameCoord(input[k], points[j]) => Idx(points[j]) <= k - 1

\* a duplicate was removed from between two kept points
C5_Witness ==
    /\ Done("remove_duplicates")
    /\ Len(points) >= 2
    /\ \E k \in 2 .. Len(input) - 1 :
          /\ input[k].ref \notin Refs(points)
          /\ Last(input).ref \in Refs(points)

\* the number of positions of s that hold the object p
Occurrences(s, p) == Cardinality({j \in 1 .. Len(s) : s[j].ref = p.ref})

\* C2: after decimate(keep_every_n) on a sequence of length >= 2, whatever
\* keep_every_n, the output's first point is the input's point at index 0,
\* its last point is the input's point at the last index, and each of the
\* two is in the output exactly once.
C2_DecimateEndpoints ==
    (Done("decimate") /\ Len(input) >= 2)
        => /\ Len(points) >= 2
           /\ First(points) = First(input)
           /\ Last(points) = Last(input)
           /\ Occurrences(points, First(input)) = 1
           /\ Occurrences(points, Last(input)) = 1

\* decimate thinned a sequence whose last interior index it does not select
C2_Witness ==
    /\ Done("decimate")
    /\ arg >= 2
    /\ Len(input) >= 4
    /\ Len(points) < Len(input)
    /\ (Len(input) - 2) % arg # 0

\* the 0-based input indices of the points of s, in order
Indices(s) == [j \in 1 .. Len(s) |-> Idx(s[j])]

\* C6: for keep_every_n >= 2 and length >= 3, decimate(keep_every_n) outputs
\* exactly the input's points at the indices {0} \cup {i in 1..len-2 :
\* i mod keep_every_n = 0} \cup {len-1}, in increasing index order; with
\* keep_every_n = 3 on indices 0..11 these are the indices 0, 3, 6, 9, 11.
C6_DecimateRule ==
    (Done("decimate") /\ arg >= 2 /\ Len(input) >= 3)
        => /\ SubList(points, input)
           /\ {Idx(points[j]) : j \in 1 .. Len(points)}
                 = {0, Len(input) - 1} \cup {i \in 1 .. Len(input) - 2 : i % arg = 0}
           /\ (arg = 3 /\ Len(input) = 12) => Indices(points) = <<0, 3, 6, 9, 11>>

\* decimate(3) returned from a 12-point sequence
C6_Witness ==
    /\ Done("decimate")
    /\ arg = 3
    /\ Len(input) = 12
    /\ Len(points) = 5

Tuning == op = "simplify_for_routing"

\* abs(count - target_points) <= max(2, 0.05 * target_points)
Within(count, target_points) ==
    \/ Abs(count - target_points) <= 2
    \/ 20 * Abs(count - target_points) <= target_points

\* C7, as claimed: for every sequence longer than target_points the result of
\* simplify_for_routing has a count with abs(count - target_points) <=
\* max(2, 0.05 * target_points), reached within at most 30 trials.
C7_AlwaysWithinTolerance ==
    (Done("simplify_for_routing") /\ Len(input) > arg)
        => /\ Within(Len(points), arg)
           /\ Len(counts) <= 30

\* C7, amended: for every sequence longer than target_points the search runs
\* between 1 and 30 trials.  If a trial's count is within the tolerance the
\* result is that trial's point set and its count satisfies the bound.
\* Otherwise all 30 trials ran and the result is either the point set of a
\* trial whose count was <= target_points (then below it by more than the
\* tolerance) or, when every trial's count exceeded target_points, the
\* unchanged input.
C7_WithinToleranceOrBest ==
    (Done("simplify_for_routing") /\ Len(input) > arg)
        => /\ Len(counts) \in 1 .. 30
           /\ \/ /\ Within(Last(counts), arg)
                 /\ Len(points) = Last(counts)
              \/ /\ Len(counts) = 30
                 /\ \A k \in 1 .. 30 : ~Within(counts[k], arg)
                 /\ \/ /\ \E k \in 1 .. 30 : counts[k] <= arg /\ Len(points) = counts[k]
                       /\ Len(points) <= arg
                    \/ /\ \A k \in 1 .. 30 : counts[k] > arg
                       /\ points = input

\* the search needed more than one trial and ended within the tolerance,
\* with fewer points than the input
C7_Witness ==
    /\ Done("simplify_for_routing")
    /\ Len(input) > arg
    /\ Len(counts) >= 2
    /\ Within(Len(points), arg)
    /\ Len(points) < Len(input)

\* C8: during simplify_for_routing the caller's list is as it was at the call
\* (the same points in the same order), and the sequence a trial hands to
\* douglas_peucker holds a copy of every original point, in order: new
\* objects, none of them the caller's or a previous trial's.
C8_TrialsOnFreshCopies ==
    /\ (Tuning /\ pc \in {"loop", "trial", "break"}) => points = input
    /\ (Tuning /\ pc = "trial")
          => /\ Len(test) = Len(input)
             /\ \A i \in 1 .. Len(test) : SameCoord(test[i], input[i])
             /\ Refs(test) \cap (Refs(input) \cup Refs(best_pts)) = {}

\* a trial is about to run although an earlier trial's shorter output is the
\* current best
C8_Witness ==
    /\ Tuning
    /\ pc = "trial"
    /\ Len(counts) >= 1
    /\ Len(best_pts) < Len(input)
    /\ Refs(best_pts) \cap Refs(input) = {}

\* C9: simplify_for_routing(target_points) with length <= target_points
\* returns at once: no trial is run and the sequence holds the same points in
\* the same order.
C9_TunerNoOp ==
    (Tuning /\ Len(input) <= arg)
        => /\ pc = "done"
           /\ points = input
           /\ counts = <<>>
           /\ test = <<>>
           /\ best_pts = <<>>

\* the call returned for a sequence of exactly target_points points, which
\* douglas_peucker could have thinned
C9_Witness ==
    /\ Done("simplify_for_routing")
    /\ Len(input) = arg
    /\ Len(input) >= 3
    /\ \E e \in {EpsLo, EpsHi} : Len(douglas_peucker(input, Fixed(e))) < Len(input)

\* C10: the search runs at most 30 trials; a trial within the tolerance is
\* the last one; when the search is over it has run exactly 30 trials if no
\* trial was within the tolerance, and otherwise stopped at the first that was.
C10_TrialCount ==
    Tuning
        => /\ Len(counts) <= 30
           /\ \A k \in 1 .. Len(counts) - 1 : ~Within(counts[k], arg)
           /\ (pc = "done" /\ Len(input) > arg)
                 => \/ Len(counts) = 30 /\ ~Within(Last(counts), arg)
                    \/ Len(counts) >= 1 /\ Within(Last(counts), arg)

\* both ends of the claim: a search of 30 trials none of which was within the
\* tolerance (the other disjunct is C7_Witness)
C10_Witness ==
    /\ Done("simplify_for_routing")
    /\ Len(counts) = 30
    /\ \A k \in 1 .. 30 : ~Within(counts[k], arg)
    /\ \E j, k \in 1 .. 30 : counts[j] # counts[k]

\* C11: a trial whose count is within the tolerance ends the search at once,
\* and the next step makes that trial's point set both the recorded best and
\* the final sequence, also when its count is above target_points and whatever
\* best had been recorded before.
C11_EarlyExitFinal ==
    [][/\ (pc = "trial" /\ Within(Len(test'), arg)) => pc' = "break"
       /\ (pc = "trial" /\ ~Within(Len(test'), arg)) => pc' = "loop"
       /\ pc = "break"
             => /\ pc' = "done"
                /\ points' = test
                /\ best_pts' = test
                /\ Len(points') = Last(counts)]_vars

\* the search ended on a trial with more points than target_points, after an
\* earlier trial with at most target_points had been recorded as best
C11_Witness ==
    /\ Done("simplify_for_routing")
    /\ Len(counts) >= 2
    /\ Within(Last(counts), arg)
    /\ Last(counts) > arg
    /\ \E k \in 1 .. Len(counts) - 1 : counts[k] <= arg
    /\ points = test
    /\ best_pts = test
    /\ Refs(points) \cap Refs(input) = {}

\* the latest trial, up to trial n, whose count was <= target_points
LastAtMost(n) == CHOOSE k \in 1 .. n : counts[k] <= arg /\ \A j \in k + 1 .. n : counts[j] > arg

C13_DPNoOp ==
    (Done("douglas_peucker") /\ (Len(input) < 3 \/ arg <= 0)) => points = input

\* douglas_peucker(0) returned from a sequence that any positive tolerance
\* of EpsSet would have thinned
C13_Witness ==
    /\ Done("douglas_peucker")
    /\ arg = 0
    /\ Len(input) >= 3
    /\ points = input
    /\ \A e \in EpsSet : e > 0 => Len(douglas_peucker(input, Fixed(e))) < Len(input)

\* C14: decimate(keep_every_n) with keep_every_n < 2 (0 and the negative
\* values included, for which no modulo is evaluated) or on a sequence of
\* fewer than 3 points returns with the sequence as it was.
C14_DecimateNoOp ==
    (Done("decimate") /\ (arg < 2 \/ Len(input) < 3)) => points = input

\* decimate(0) returned from a sequence with interior points
C14_Witness ==
    /\ Done("decimate")
    /\ arg = 0
    /\ Len(input) >= 4
    /\ points = input

\* the valid points of s, by the spec's rule: lat != 0 or lng != 0
Valid(s) == {s[i] : i \in {j \in 1 .. Len(s) : s[j].lat # 0 \/ s[j].lng # 0}}

\* C15, as claimed: bounds() returns (0, 0, 0, 0) for an empty sequence, and
\* for every non-empty sequence returns (min lat, min lng, max lat, max lng)
\* taken over exactly the points with lat != 0 or lng != 0.
C15_BoundsOverValid ==
    Done("bounds")
        => /\ ret.raised = ""
           /\ input = <<>> => ret.value = <<0, 0, 0, 0>>
           /\ input # <<>>
                 => /\ Len(ret.value) = 4
                    /\ \A p \in Valid(input) :
                          /\ ret.value[1] <= p.lat /\ p.lat <= ret.value[3]
                          /\ ret.value[2] <= p.lng /\ p.lng <= ret.value[4]
                    /\ \E p \in Valid(input) : p.lat = ret.value[1]
                    /\ \E p \in Valid(input) : p.lng = ret.value[2]
                    /\ \E p \in Valid(input) : p.lat = ret.value[3]
                    /\ \E p \in Valid(input) : p.lng = ret.value[4]

\* bounds() was called on a non-empty sequence with no valid point
C15_Witness ==
    /\ Done("bounds")
    /\ input # <<>>
    /\ Valid(input) = {}

\* the sum of the distances between the neighbours among the first n points
RECURSIVE PathLength(_, _)
PathLength(s, n) ==
    IF n <= 1 THEN 0 ELSE PathLength(s, n - 1) + distance_from(s[n - 1], s[n])

\* C16: total_distance() returns 0 for a sequence of 0 or 1 points and
\* otherwise the sum of distance(points[i-1], points[i]) for i = 1..len-1;
\* it leaves the sequence as it was.
C16_TotalDistance ==
    Done("total_distance")
        => /\ points = input
           /\ ret.raised = ""
           /\ Len(input) <= 1 => ret.value = <<0>>
           /\ ret.value = <<PathLength(input, Len(input))>>

\* total_distance() added up two legs of different lengths
C16_Witness ==
    /\ Done("total_distance")
    /\ Len(input) = 3
    /\ distance_from(input[1], input[2]) > distance_from(input[2], input[3])
    /\ distance_from(input[2], input[3]) > 0
    /\ ret.value[1] > distance_from(input[1], input[3])

\* C20: a point is valid iff lat != 0 or lng != 0; remove_empties() removes
\* exactly the points at (0, 0), whatever their altitude and name, and keeps
\* every other point, in the order they had.
C20_RemoveEmpties ==
    Done("remove_empties")
        => /\ SubList(points, input)
           /\ \A k \in 1 .. Len(input) :
                 input[k].ref \in Refs(points) <=> ~(input[k].lat = 0 /\ input[k].lng = 0)
           /\ \A k \in 1 .. Len(input) :
                 __bool__(input[k]) <=> (input[k].lat # 0 \/ input[k].lng # 0)

\* remove_empties() dropped a named point at (0, 0) from between a point with
\* lat = 0 only and a point with lng = 0 only, which it kept
C20_Witness ==
    /\ Done("remove_empties")
    /\ Len(input) = 3
    /\ Len(points) = 2
    /\ input[2].lat = 0 /\ input[2].lng = 0 /\ input[2].name = "A"
    /\ points[1] = input[1] /\ points[1].lat = 0
    /\ points[2] = input[3] /\ points[2].lng = 0

\* C17, as claimed: _perpendicular_distance never divides by zero.  When
\* line_start and line_end coincide in the projected plane (dx = 0 and dy = 0)
\* the result is the distance from pt to line_start; otherwise the division
\* by dx * dx + dy * dy has a non-zero divisor and the call returns.
C17_NoDivisionByZero ==
    Done("_perpendicular_distance")
        => LET pt == input[1]
               line_start == input[2]
               line_end == input[3]
           IN  /\ ret.raised = ""
               /\ (line_start.lng = line_end.lng /\ line_start.lat = line_end.lat)
                     => ret.value = <<pt.lng - line_start.lng, pt.lat - line_start.lat, 1>>

\* the call divided by 0.0: the segment's ends differ, and the squares of
\* their differences are 0.0
C17_Witness ==
    /\ Done("_perpendicular_distance")
    /\ ret.raised = "ZeroDivisionError"
    /\ input[2].lat = input[3].lat
    /\ input[2].lng # input[3].lng

\* C18, as claimed: the simplify API answers a well-formed request with a
\* record carrying the fields original_count, simplified_count and points;
\* original_count is the number of points submitted, simplified_count the
\* length of points, and simplified_count <= original_count.
C18_SimplifyResponse ==
    pc = "sent"
        => LET r == ret.value[1]
           IN  /\ {"original_count", "simplified_count", "points"} \subseteq DOMAIN r
               /\ r.original_count = Len(input)
               /\ r.simplified_count = Len(r.points)
               /\ r.simplified_count <= r.original_count

\* the handler answered a request whose method removed points
C18_Witness ==
    /\ pc = "sent"
    /\ Len(points) < Len(input)
    /\ DOMAIN ret.value[1] = {"original", "simplified", "points"}
    /\ ret.value[1].original = Len(input)
    /\ ret.value[1].simplified = Len(ret.value[1].points)

\* C19: the points of a tuner trial sequence, of the result of from_array
\* and of the route merged by convert are copies: objects distinct from the
\* source sequence's (and from each other), with the source's coordinates in
\* the source's order; clearing a point of the new sequence changes no point
\* of the source.
C19_DeepCopies ==
    /\ []((Tuning /\ pc = "trial")
            => /\ Refs(test) \cap Refs(points) = {}
               /\ Cardinality(Refs(test)) = Len(test)
               /\ \A i \in 1 .. Len(test) : SameCoord(test[i], points[i]))
    /\ [](((Done("from_array") \/ Done("convert")))
            => /\ Refs(route) \cap Refs(points) = {}
               /\ Cardinality(Refs(route)) = Len(route)
               /\ \A i \in 1 .. Len(route) : SameCoord(route[i], At(input, Idx(route[i])))
               /\ \A i \in 1 .. Len(route) - 1 : Idx(route[i]) < Idx(route[i + 1])
               /\ (Done("convert") /\ arg > 0) => Len(route) = Len(input))
    /\ [][pc' = "cleared" => (points' = points /\ route' # route)]_vars

\* a point of a route merged from two arrays was cleared, a point that is
\* valid in the source
C19_Witness ==
    /\ pc = "cleared"
    /\ op = "convert"
    /\ arg = 2
    /\ points = input
    /\ \E i \in 1 .. Len(route) :
          /\ route[i].lat = 0
          /\ At(points, Idx(route[i])).lat # 0

\* C21: for every sequence longer than target_points, simplify_for_routing
\* leaves a sequence whose first point has the coordinates of the original
\* first point and whose last point has those of the original last point (an
\* empty sequence stays empty).
C21_TunerEndpoints ==
    (Done("simplify_for_routing") /\ Len(input) > arg)
        => /\ Len(points) = 0 <=> Len(input) = 0
           /\ Len(input) >= 1
                 => /\ SameCoord(First(points), First(input))
                    /\ SameCoord(Last(points), Last(input))
                    /\ Idx(First(points)) = 0
                    /\ Idx(Last(points)) = Len(input) - 1

\* the search replaced the sequence by a shorter one made of copies, whose
\* ends differ in their coordinates
C21_Witness ==
    /\ Done("simplify_for_routing")
    /\ Len(input) > arg
    /\ Len(points) < Len(input)
    /\ Refs(points) \cap Refs(input) = {}
    /\ ~SameCoord(First(input), Last(input))
    /\ ~SameCoord(Last(input), input[Len(input) - 1])

\* C22: when a sequence of >= 3 points has every interior point within
\* epsilon_m of the chord from its first to its last point, douglas_peucker
\* (epsilon_m > 0) leaves exactly the first and the last point: the output is
\* shorter than the input and the endpoints are the input's.  For the input
\* (0,0), (0,1), (0,2), (0,3), (0,100) with epsilon_m = 50 this is the case.
C22_ColinearCollapse ==
    /\ ( /\ Done("douglas_peucker")
         /\ arg > 0
         /\ Len(input) >= 3
         /\ \A i \in 2 .. Len(input) - 1 :
               _perpendicular_distance(input[i], First(input), Last(input)) <= arg )
          => /\ points = <<First(input), Last(input)>>
             /\ Len(points) < Len(input)
    /\ ( /\ Done("douglas_peucker")
         /\ arg = 50
         /\ input = PointList(ColinearExample) )
          => points = <<input[1], input[5]>>

\* douglas_peucker(50) returned from the colinear example
C22_Witness ==
    /\ Done("douglas_peucker")
    /\ arg = 50
    /\ input = PointList(ColinearExample)
    /\ Len(points) = 2

\* the 0-based input indices douglas_peucker kept
Kept == {Idx(points[j]) : j \in 1 .. Len(points)}

\* a and b are kept indices with no kept index between them
Consecutive(a, b) == a \in Kept /\ b \in Kept /\ a < b /\ \A k \in Kept : ~(a < k /\ k < b)

\* C23: after douglas_peucker(e) with e > 0, every input point strictly
\* between two consecutive kept indices a and b is within e of the chord
\* (a, b); and every kept interior point is farther than e from the chord of
\* a range between two kept indices, in which no point is farther than it.
C23_ToleranceGuarantee ==
    (Done("douglas_peucker") /\ arg > 0 /\ Len(input) >= 3)
        => /\ \A a, b \in 0 .. Len(input) - 1 :
                 Consecutive(a, b)
                     => \A i \in a + 1 .. b - 1 :
                           _perpendicular_distance(At(input, i), At(input, a), At(input, b)) <= arg
           /\ \A k \in Kept \ {0, Len(input) - 1} :
                 \E a, b \in Kept :
                    /\ a < k /\ k < b
                    /\ _perpendicular_distance(At(input, k), At(input, a), At(input, b)) > arg
                    /\ \A i \in a + 1 .. b - 1 :
                          _perpendicular_distance(At(input, i), At(input, a), At(input, b))
                              <= _perpendicular_distance(At(input, k), At(input, a), At(input, b))

\* douglas_peucker kept an interior point and dropped another that is off
\* the chord of its kept neighbours, within the tolerance
C23_Witness ==
    /\ Done("douglas_peucker")
    /\ arg > 0
    /\ Len(points) = 3
    /\ Len(input) = 4
    /\ \E a, b \in Kept :
          /\ Consecutive(a, b)
          /\ b = a + 2
          /\ _perpendicular_distance(At(input, a + 1), At(input, a), At(input, b)) > 0

\* the distance of input index i from the chord (a, b) of input indices
Dist(i, a, b) == _perpendicular_distance(At(input, i), At(input, a), At(input, b))

\* the interior indices of the range (a, b) that are farthest from its chord
Farthest(a, b) == {i \in a + 1 .. b - 1 : \A j \in a + 1 .. b - 1 : Dist(j, a, b) <= Dist(i, a, b)}

Lowest(S) == CHOOSE i \in S : \A j \in S : i <= j

\* the indices a split of the range (a, b) of the input marks, whatever the
\* order in which the ranges are treated: the first farthest point of the
\* range if it is farther than the tolerance, and those of the two halves
RECURSIVE SplitPoints(_, _)
SplitPoints(a, b) ==
    IF b - a < 2 THEN {}
    ELSE LET k == Lowest(Farthest(a, b))
         IN  IF Dist(k, a, b) > arg
             THEN {k} \cup SplitPoints(a, k) \cup SplitPoints(k, b)
             ELSE {}

\* C24: in every range whose farthest interior points are off the chord, the
\* scan's max_idx is the lowest index among the farthest points; when that
\* distance exceeds epsilon_m in the first range (0, n-1), that index is
\* kept, and a farthest point of higher index is kept only if the split of a
\* later range, within (that index, n-1), selects it.
C24_TieBreakLowest ==
    (Done("douglas_peucker") /\ arg > 0 /\ Len(input) >= 3)
        => /\ \A a, b \in 0 .. Len(input) - 1 :
                 (b - a >= 2 /\ \E i \in a + 1 .. b - 1 : Dist(i, a, b) > 0)
                     => \E m \in {MaxOfRange(input, a, b)} :
                           /\ m.max_idx \in a + 1 .. b - 1
                           /\ m.max_dist = Dist(m.max_idx, a, b)
                           /\ \A j \in a + 1 .. b - 1 : Dist(j, a, b) <= m.max_dist
                           /\ \A j \in a + 1 .. m.max_idx - 1 : Dist(j, a, b) < m.max_dist
           /\ LET n == Len(input)
                  k == Lowest(Farthest(0, n - 1))
              IN  Dist(k, 0, n - 1) > arg
                     => /\ k \in Kept
                        /\ \A i \in Farthest(0, n - 1) \cap Kept :
                              i = k \/ i \in SplitPoints(k, n - 1)

\* two interior points were equally far from the chord, farther than the
\* tolerance, and douglas_peucker kept the first of them only
C24_Witness ==
    /\ Done("douglas_peucker")
    /\ arg > 0
    /\ Len(input) = 4
    /\ Farthest(0, 3) = {1, 2}
    /\ Dist(1, 0, 3) > arg
    /\ Kept = {0, 1, 3}
    /\ SameCoord(At(input, 1), At(input, 2))
    /\ ~SameCoord(At(input, 2), At(input, 3))

\* C25: the output of douglas_peucker is an order-preserving subsequence of
\* the input: its points are input points at strictly increasing indices,
\* each kept index occurs once, and the kept indices are the two endpoints
\* and the split points of the ranges, a set that does not depend on the
\* order in which the ranges leave the stack.
C25_OrderPreserved ==
    Done("douglas_peucker")
        => /\ SubList(points, input)
           /\ Len(points) = Cardinality(Kept)
           /\ (arg > 0 /\ Len(input) >= 3)
                 => Kept = {0, Len(input) - 1} \cup SplitPoints(0, Len(input) - 1)

\* a range was split, its two halves waited on the stack together, neither
\* was split again, and the point between the split point and an endpoint
\* was dropped
C25_Witness ==
    /\ Done("douglas_peucker")
    /\ arg > 0
    /\ Len(input) = 4
    /\ Len(points) = 3
    /\ SplitPoints(0, 3) # {}
    /\ \E k \in Kept : k = Lowest(Farthest(0, 3)) /\ Dist(k, 0, 3) > arg

\* the range on top of the stack, the one the next pass pops
Top == stack[Len(stack)]

\* C26: the work-stack loop of douglas_peucker terminates: a pass that
\* splits the popped range (start, end) pushes (start, k) and (k, end) with
\* start < k < end, both strictly shorter than the range; no range is ever
\* pushed twice; and a call that entered the loop reaches the empty stack
\* and returns.
C26_LoopTerminates ==
    /\ [][(pc = "while" /\ Len(stack') > Len(stack))
             => LET left  == stack'[Len(stack)]
                    right == stack'[Len(stack')]
                IN  /\ Len(stack') = Len(stack) + 1
                    /\ left[1] = Top[1]
                    /\ right[2] = Top[2]
                    /\ left[2] = right[1]
                    /\ Top[1] < left[2]
                    /\ left[2] < Top[2]
                    /\ left[2] - left[1] < Top[2] - Top[1]
                    /\ right[2] - right[1] < Top[2] - Top[1]]_vars
    /\ [](\A i, j \in 1 .. Len(pushed) : pushed[i] = pushed[j] => i = j)
    /\ ((pc = "while") ~> (pc = "done" /\ stack = <<>>))

\* the loop split the first range and a half of it, and then emptied the stack
C26_Witness ==
    /\ Done("douglas_peucker")
    /\ arg > 0
    /\ Len(pushed) = 5
    /\ stack = <<>>
    /\ Len(points) = Len(input)

\* C27, as claimed: bounds() raises nothing and returns a tuple of four
\* numbers for every sequence, a non-empty sequence whose points are all at
\* (0, 0) included.
C27_BoundsNeverRaises ==
    Done("bounds")
        => /\ ret.raised = ""
           /\ Len(ret.value) = 4
           /\ \A k \in 1 .. 4 : ret.value[k] \in Int

\* bounds() was called on two or more points, every one of them at (0, 0)
C27_Witness ==
    /\ Done("bounds")
    /\ Len(input) >= 2
    /\ \A k \in 1 .. Len(input) : input[k].lat = 0 /\ input[k].lng = 0

\* C28: when simplify_for_routing has run its 30 trials and in every one of
\* them the count was greater than target_points and outside the early-exit
\* tolerance, the sequence is as it was before the call: the same point
\* objects in the same order.  Every call with target_points below -2 is
\* such a call.
C28_TunerLeavesSequence ==
    Done("simplify_for_routing")
        => /\ (/\ Len(counts) = 30
               /\ \A k \in 1 .. 30 : counts[k] > arg /\ ~Within(counts[k], arg))
                 => points = input
           /\ arg < -2
                 => /\ Len(counts) = 30
                    /\ \A k \in 1 .. 30 : counts[k] > arg /\ ~Within(counts[k], arg)
                    /\ points = input

\* the search ran out with a negative target after trials that dropped points
C28_Witness ==
    /\ Done("simplify_for_routing")
    /\ arg < -2
    /\ Len(counts) = 30
    /\ Len(input) >= 4
    /\ \E k \in 1 .. 30 : counts[k] < Len(input)
    /\ points = input

\* the points of the arrays as, from array i on, one after the other
RECURSIVE Flat(_, _)
Flat(as, i) == IF i > Len(as) THEN <<>> ELSE as[i].points \o Flat(as, i + 1)

\* the sum of the lengths of the arrays as, from array i on
RECURSIVE TotalLen(_, _)
TotalLen(as, i) == IF i > Len(as) THEN 0 ELSE Len(as[i].points) + TotalLen(as, i + 1)

\* C29: when both extensions are supported and the reader returns at least
\* one sequence, convert hands exactly one route to a writer, the one it
\* returns: named after the first sequence, holding copies of the points of
\* all sequences in reader order, as many as the sequences hold together.
\* An unsupported input or output extension and a reader result without a
\* sequence raise ValueError, and in the two input cases no writer is called.
C29_ConvertMerges ==
    Done("convert")
        => /\ (paths.input /\ read_arrays # <<>> /\ paths.output)
                 => /\ ret.raised = ""
                    /\ Len(written) = 1
                    /\ ret.value = <<written[1]>>
                    /\ written[1].points = route
                    /\ written[1].name = read_arrays[1].name
                    /\ Len(route) = TotalLen(read_arrays, 1)
                    /\ \A k \in 1 .. Len(route) :
                          /\ SameCoord(route[k], Flat(read_arrays, 1)[k])
                          /\ Idx(route[k]) = Idx(Flat(read_arrays, 1)[k])
           /\ (~paths.input \/ read_arrays = <<>> \/ ~paths.output)
                 => ret.raised = "ValueError"
           /\ (~paths.input \/ read_arrays = <<>>)
                 => written = <<>>

\* convert merged two sequences, each with a point, and wrote the route
C29_Witness ==
    /\ Done("convert")
    /\ ret.raised = ""
    /\ Len(read_arrays) = 2
    /\ read_arrays[1].points # <<>>
    /\ read_arrays[2].points # <<>>
    /\ Len(written) = 1
    /\ Len(written[1].points) >= 3

\* the 0-based route indices of the points written to file k
PartIndices(k) == {Idx(written[k].points[j]) : j \in 1 .. Len(written[k].points)}

\* C30, as claimed: for every max_points >= 1 and every route longer than
\* max_points the split loop of write_itn terminates: current grows with
\* every pass until it reaches the length of the route; every part holds at
\* most max_points points; a part starts with the point its predecessor
\* ended with; and when the call returns the parts hold every point of the
\* route.
C30_SplitTerminates ==
    /\ [][(pc = "split" /\ pc' = "split") => current' > current]_vars
    /\ [](op = "write_itn" /\ pc = "split"
            => /\ \A k \in 1 .. Len(written) : Len(written[k].points) <= arg
               /\ \A k \in 1 .. Len(written) - 1 :
                     PartIndices(k) \cap PartIndices(k + 1)
                         = {Idx(Last(written[k].points))})
    /\ []((Done("write_itn") /\ arg >= 1 /\ Len(input) > arg)
            => UNION {PartIndices(k) : k \in 1 .. Len(written)} = 0 .. Len(input) - 1)
    /\ ((pc = "split") ~> (pc = "done"))

\* the split loop with max_points = 1 has written a third file and current
\* is where it was after the first
C30_Witness ==
    /\ op = "write_itn"
    /\ pc = "split"
    /\ arg = 1
    /\ Len(input) >= 2
    /\ Len(written) >= 3
    /\ current = 1

\* the loop taken a pass at a time computes what douglas_peucker computes
LoopAgrees == Done("douglas_peucker") => points = douglas_peucker(input, Fixed(arg))
====
